---- MODULE Spec2Model ----
(***************************************************************************)
(* A model of the spaGO computation-graph clients:                         *)
(*   pkg/ml/ag/fn  ProdScalar (through its unit test),                     *)
(*   pkg/ml/nn     Affine, Conv2D, ScaledDotProductAttention(Concurrent),  *)
(*   scalenorm     Processor.Forward.                                      *)
(* The Graph engine itself (node insertion, Forward, Backward) is not part *)
(* of the sources at hand; it is modelled from the design document and     *)
(* those definitions say so.                                               *)
(*                                                                         *)
(* Numbers: a mat.Float is modelled as an integer count of tenths, a       *)
(* product of two of them as a count of hundredths.                        *)
(***************************************************************************)
EXTENDS Integers, Sequences, FiniteSets, Bags, TLC

VARIABLES
    nodes,   \* Graph.nodes: the node sequence of the Graph g, in insertion order
    args,    \* the operands the call under study was given
    pc,      \* where the call (or each of its goroutines) stands
    local,   \* the locals of the call (or of each goroutine)
    ret,     \* what the call returned, or the panic that ended it
    grad,    \* the gradient slots
    lock     \* the holder of the mutex guarding a gradient slot

vars == <<nodes, args, pc, local, ret, grad, lock>>

\* A local or a result that is not set yet.
Nil == "nil"

\* An absent gradient (a nil matrix); a gradient is a sequence of numbers.
NoGrad == <<>>

\* A slot of the model that the scenario at hand does not use.
Unused == "unused"

----------------------------------------------------------------------------
(* Helpers on sequences and integers.                                      *)

Last(s) == s[Len(s)]

Range(s) == {s[k] : k \in DOMAIN s}

RECURSIVE SumSeq(_)
SumSeq(s) == IF s = <<>> THEN 0 ELSE s[1] + SumSeq(Tail(s))

\* The sequences over S of length lo..hi.
SeqsOf(S, lo, hi) == UNION {[1..n -> S] : n \in lo..hi}

Abs(a) == IF a < 0 THEN -a ELSE a

\* Go's integer division: truncated toward zero (b # 0).
GoDiv(a, b) ==
    LET q == Abs(a) \div Abs(b)
    IN  IF (a < 0) = (b < 0) THEN q ELSE -q

\* Go's remainder: a - (a/b)*b, it has the sign of a (b # 0).
GoRem(a, b) == a - GoDiv(a, b) * b

----------------------------------------------------------------------------
(* The Graph: a sequence of nodes in insertion order. A node is a record   *)
(* holding its id (its position, from 0), its operator, its operand nodes  *)
(* (Go pointers: the operand records themselves), whether it requires a    *)
(* gradient, and the operator's parameters. The engine's code is not among *)
(* the sources: the factories follow the design document (sections 3 and   *)
(* 4.2): a factory allocates a node over operands that exist already and   *)
(* appends it to the node sequence.                                        *)

LeafOps == {"Variable", "Wrap", "Scalar"}

\* The operator's parameters when it has none.
NoAttr == <<>>

\* A nil ag.Node.
NilNode == [id |-> -1, op |-> "nil", xs |-> <<>>, requiresGrad |-> FALSE,
            attr |-> NoAttr]

\* A node requires a gradient when one of its operands does.
AnyRequiresGrad(xs) == \E k \in DOMAIN xs : xs[k].requiresGrad

\* g.NewVariable / g.NewWrap / g.NewScalar: a leaf appended to g.
NewLeaf(g, op, requiresGrad, attr) ==
    Append(g, [id |-> Len(g), op |-> op, xs |-> <<>>,
               requiresGrad |-> requiresGrad, attr |-> attr])

\* g.NewOperator: an operator node over xs appended to g.
NewOperator(g, op, xs, attr) ==
    Append(g, [id |-> Len(g), op |-> op, xs |-> xs,
               requiresGrad |-> AnyRequiresGrad(xs), attr |-> attr])

\* What a node computes, as a term: its operator applied to what its
\* operands compute. Two nodes that compute the same thing have equal terms,
\* whatever their ids.
RECURSIVE Val(_)
Val(n) ==
    IF n = NilNode \/ n.op \in LeafOps THEN <<n.op, <<>>, n.attr>>
    ELSE <<n.op, [k \in DOMAIN n.xs |-> Val(n.xs[k])], n.attr>>

\* The terms of the operator nodes of g, with their multiplicities.
RECURSIVE OperatorBag(_)
OperatorBag(g) ==
    IF g = <<>> THEN EmptyBag
    ELSE IF Last(g).op \in LeafOps THEN OperatorBag(SubSeq(g, 1, Len(g) - 1))
    ELSE OperatorBag(SubSeq(g, 1, Len(g) - 1)) (+) SetToBag({Val(Last(g))})

\* A Graph holding n input leaves, all requiring gradients.
RECURSIVE LeafGraph(_)
LeafGraph(n) ==
    IF n = 0 THEN <<>> ELSE NewLeaf(LeafGraph(n - 1), "Variable", TRUE, <<n>>)

----------------------------------------------------------------------------
(* fn.ProdScalar: the product of a vector and a 1-element scalar operand.  *)
(* Its code is not among the sources; the operator is modelled from the    *)
(* design document (section 4.1), the scenario from its unit test.         *)

\* Bounds of the ProdScalar scenario.
MaxVecLen == 2

\* The values the test of ProdScalar uses, in tenths.
TestX1 == <<1, 2, 3, 0>>
TestX2 == 20
TestGy == <<-10, 5, 8, 0>>

\* The operand vectors tried: the test's own, and every short vector.
VecValues == {-1, 0, 2}
VecInputs(v) == {v} \cup SeqsOf(VecValues, 1, MaxVecLen)

\* z = x * s
ProdScalarForward(x1, x2) == [i \in DOMAIN x1 |-> x1[i] * x2]

\* dL/dx = dL/dz: the scalar factor forgotten
ProdScalarGradX1_Unscaled(gy, x1, x2) == [i \in DOMAIN gy |-> gy[i]]

\* dL/dx = dL/dz * s
ProdScalarGradX1(gy, x1, x2) == [i \in DOMAIN gy |-> gy[i] * x2]

\* dL/ds = sum(dL/dz (.) x): a 1-element vector
ProdScalarGradX2(gy, x1, x2) == <<SumSeq([i \in DOMAIN gy |-> gy[i] * x1[i]])>>

\* variable.PropagateGrad: add into the slot, creating it if absent.
PropagateGrad(slot, gx) ==
    IF slot = NoGrad THEN gx ELSE [i \in DOMAIN gx |-> slot[i] + gx[i]]

InitProdScalar ==
    /\ nodes = <<>>
    /\ \E x1 \in VecInputs(TestX1), x2 \in {TestX2, -10, 0},
          rg1 \in BOOLEAN, rg2 \in BOOLEAN :
         \E gy \in {TestGy} \cup [DOMAIN x1 -> VecValues] :
            /\ DOMAIN gy = DOMAIN x1
            /\ args = [x1 |-> [value |-> x1, requiresGrad |-> rg1],
                       x2 |-> [value |-> x2, requiresGrad |-> rg2],
                       gy |-> gy]
    /\ pc = "start"
    /\ local = Nil
    /\ ret = Nil
    /\ grad = [x1 |-> NoGrad, x2 |-> NoGrad]
    /\ lock = Unused

\* f := NewProdScalar(x1, x2)
NewProdScalar ==
    /\ pc = "start"
    /\ local' = [x1 |-> args.x1, x2 |-> args.x2]
    /\ pc' = "constructed"
    /\ UNCHANGED <<nodes, args, ret, grad, lock>>

\* y := f.Forward()
ProdScalarDoForward ==
    /\ pc = "constructed"
    /\ ret' = ProdScalarForward(local.x1.value, local.x2.value)
    /\ pc' = "forwarded"
    /\ UNCHANGED <<nodes, args, local, grad, lock>>

\* f.Backward(gy)
ProdScalarDoBackward ==
    /\ pc = "forwarded"
    /\ grad' =
         [x1 |-> IF local.x1.requiresGrad
                 THEN PropagateGrad(grad.x1,
                        ProdScalarGradX1(args.gy, local.x1.value, local.x2.value))
                 ELSE grad.x1,
          x2 |-> IF local.x2.requiresGrad
                 THEN PropagateGrad(grad.x2,
                        ProdScalarGradX2(args.gy, local.x1.value, local.x2.value))
                 ELSE grad.x2]
    /\ pc' = "backwarded"
    /\ UNCHANGED <<nodes, args, local, ret, lock>>

NextProdScalar == NewProdScalar \/ ProdScalarDoForward \/ ProdScalarDoBackward

SpecProdScalar == InitProdScalar /\ [][NextProdScalar]_vars

\* C1: for operands that both require gradients, with both gradients absent
\* at first, Forward returns the vector x1[i]*x2, and the Backward that
\* follows sets x1's gradient to gy[i]*x2 and x2's gradient to the single
\* element sum_i gy[i]*x1[i]; in particular x1 = [0.1,0.2,0.3,0.0], x2 = 2.0,
\* gy = [-1.0,0.5,0.8,0.0] give [0.2,0.4,0.6,0.0], [-2.0,1.0,1.6,0.0], [0.24].
ScalarProdForwardBackward ==
    /\ pc \in {"forwarded", "backwarded"} =>
         /\ Len(ret) = Len(args.x1.value)
         /\ \A i \in 1..Len(ret) : ret[i] = args.x1.value[i] * args.x2.value
    /\ (pc = "backwarded" /\ args.x1.requiresGrad /\ args.x2.requiresGrad) =>
         /\ Len(grad.x1) = Len(args.gy)
         /\ \A i \in 1..Len(args.gy) : grad.x1[i] = args.gy[i] * args.x2.value
         /\ Len(grad.x2) = 1
         /\ grad.x2[1] = SumSeq([i \in 1..Len(args.gy) |->
                                    args.gy[i] * args.x1.value[i]])
    /\ (/\ pc = "backwarded"
        /\ args.x1.requiresGrad /\ args.x2.requiresGrad
        /\ args.x1.value = TestX1 /\ args.x2.value = TestX2 /\ args.gy = TestGy) =>
         /\ ret = <<20, 40, 60, 0>>
         /\ grad.x1 = <<-200, 100, 160, 0>>
         /\ grad.x2 = <<24>>

\* The test's scenario has run to its end.
ScalarProdTestRan ==
    /\ pc = "backwarded"
    /\ args.x1.requiresGrad /\ args.x2.requiresGrad
    /\ args.x1.value = TestX1 /\ args.x2.value = TestX2 /\ args.gy = TestGy
    /\ grad.x2 = <<24>>

----------------------------------------------------------------------------
(* nn.Affine, src/pkg/ml/nn/transforms.go                                  *)

\* Bounds of the Affine scenario.
NumLeaves == 2
MaxOperands == 5

ArityPanic == "nn: the number of arguments of the affine transformation should be odd"
IndexPanic == "runtime error: index out of range"

\* Linear(g, w, x): g.Mul(w, x)
Linear(g, w, x) == NewOperator(g, "Mul", <<w, x>>, NoAttr)

\* The arity test with the empty operand list let through.
AffineArityRejected_NonEmptyOnly(xs) == Len(xs) # 0 /\ Len(xs) % 2 = 0

\* if len(xs)%2 == 0 { panic(...) }
AffineArityRejected(xs) == Len(xs) % 2 = 0

\* The loop without the test for a nil x.
RECURSIVE AffineLoop_NoNilTest(_, _, _, _)
AffineLoop_NoNilTest(g, y, xs, i) ==
    IF ~(i < Len(xs) - 1) THEN [g |-> g, y |-> y]
    ELSE LET g1 == Linear(g, xs[i + 1], xs[i + 2])
             g2 == NewOperator(g1, "Add", <<y, Last(g1)>>, NoAttr)
         IN  AffineLoop_NoNilTest(g2, Last(g2), xs, i + 2)

\* for i := 3; i < len(xs)-1; i += 2 { ... }, i counting from 0 as in Go;
\* xs[i] of the code is xs[i + 1] here.
RECURSIVE AffineLoop(_, _, _, _)
AffineLoop(g, y, xs, i) ==
    IF ~(i < Len(xs) - 1) THEN [g |-> g, y |-> y]
    ELSE LET w == xs[i + 1]
             x == xs[i + 2]
         IN  IF x # NilNode
             THEN LET g1 == Linear(g, w, x)
                      g2 == NewOperator(g1, "Add", <<y, Last(g1)>>, NoAttr)
                  IN  AffineLoop(g2, Last(g2), xs, i + 2)
             ELSE AffineLoop(g, y, xs, i + 2)

\* The operand lists tried: the bias and the weights are nodes of the
\* Graph, an x may be nil.
AffineInputs(g) ==
    {xs \in SeqsOf(Range(g) \cup {NilNode}, 0, MaxOperands) :
        \A k \in DOMAIN xs : xs[k] = NilNode => (k > 1 /\ k % 2 = 1)}

InitAffine ==
    /\ nodes = LeafGraph(NumLeaves)
    /\ \E xs \in AffineInputs(nodes) : args = [xs |-> xs]
    /\ pc = "start"
    /\ local = [before |-> nodes]
    /\ ret = Nil
    /\ grad = Unused
    /\ lock = Unused

\* Affine(g, xs...): the whole call.
Affine ==
    /\ pc = "start"
    /\ LET xs == args.xs
       IN  IF AffineArityRejected(xs)
           THEN /\ ret' = [status |-> "panic", msg |-> ArityPanic]
                /\ UNCHANGED nodes
           ELSE IF Len(xs) < 3
           THEN \* xs[0], xs[1], xs[2] are evaluated before Linear is called
                /\ ret' = [status |-> "panic", msg |-> IndexPanic]
                /\ UNCHANGED nodes
           ELSE LET g1 == Linear(nodes, xs[2], xs[3])
                    g2 == NewOperator(g1, "Add", <<xs[1], Last(g1)>>, NoAttr)
                    r  == AffineLoop(g2, Last(g2), xs, 3)
                IN  /\ nodes' = r.g
                    /\ ret' = [status |-> "returned", node |-> r.y]
    /\ pc' = "done"
    /\ UNCHANGED <<args, local, grad, lock>>

NextAffine == Affine

SpecAffine == InitAffine /\ [][NextAffine]_vars

\* C2: Affine called with an even number of operands, zero included, ends
\* in the arity panic and the Graph's node sequence is the one before the call.
AffineEvenArityPanics ==
    (pc = "done" /\ Len(args.xs) % 2 = 0) =>
        /\ ret.status = "panic"
        /\ ret.msg = ArityPanic
        /\ nodes = local.before

\* Affine was called with no operand at all and has ended.
AffineCalledWithNoOperand ==
    pc = "done" /\ Len(args.xs) = 0 /\ ret.status = "panic"

\* b + W1x1 + W2x2 + ... as a term: the pairs from the k-th on added to y.
RECURSIVE AffineSum(_, _, _)
AffineSum(y, xs, k) ==
    IF 2 * k + 1 > Len(xs) THEN y
    ELSE IF k > 1 /\ xs[2 * k + 1] = NilNode THEN AffineSum(y, xs, k + 1)
    ELSE AffineSum(<<"Add", <<y, <<"Mul", <<Val(xs[2 * k]), Val(xs[2 * k + 1])>>, NoAttr>>>>,
                     NoAttr>>,
                   xs, k + 1)

\* C3: Affine called with any odd number of operands (1, 3, 5, ...) returns
\* a node for b + W1x1 + ... + Wnxn over all the pairs (xs[1],xs[2]),
\* (xs[3],xs[4]), ..., none with a non-nil x left out.
AffineOddArityReturns ==
    (pc = "done" /\ Len(args.xs) % 2 = 1) =>
        /\ ret.status = "returned"
        /\ Val(ret.node) = AffineSum(Val(args.xs[1]), args.xs, 1)

\* The same for three operands and more (what the code does do).
AffineFromThreeReturns ==
    (pc = "done" /\ Len(args.xs) % 2 = 1 /\ Len(args.xs) >= 3) =>
        /\ ret.status = "returned"
        /\ Val(ret.node) = AffineSum(Val(args.xs[1]), args.xs, 1)

----------------------------------------------------------------------------
(* nn.Conv2D, src/pkg/ml/nn/transforms.go                                  *)

\* Bounds of the Conv2D scenario: the matrices have 1..MaxDim rows and
\* columns, the strides are 0..MaxStride.
MaxDim == 3
MaxStride == 2

RowsPanic == "Incompatible stride value for rows"
ColumnsPanic == "Incompatible stride value for columns"
DividePanic == "runtime error: integer divide by zero"
ReshapePanic == "incompatible sizes"

\* x.Value().Rows(), x.Value().Columns(): a matrix leaf carries its shape.
Rows(n) == n.attr[1]
Columns(n) == n.attr[2]

\* (x.Value().Rows()-w.Value().Rows())%xStride != 0
Conv2DRowsRejected(w, x, xStride) == GoRem(Rows(x) - Rows(w), xStride) # 0

\* The columns test made on the rows (a copied line left unchanged).
Conv2DColumnsRejected_OnRows(w, x, yStride) == GoRem(Rows(x) - Rows(w), yStride) # 0

\* (x.Value().Columns()-w.Value().Columns())%yStride != 0
Conv2DColumnsRejected(w, x, yStride) == GoRem(Columns(x) - Columns(w), yStride) # 0

\* g.Reshape checks that the operand holds rows*columns elements (design
\* document, section 4.2: a factory validates its operands' shapes).
ReshapeRejected(size, rows, columns) == size # rows * columns

\* for i := 0; i < dimx; i++ { for j := 0; j < dimy; j++ { ... } }
\* c holds w, x, the strides and dimx, dimy; out is outList.
RECURSIVE Conv2DLoop(_, _, _, _, _)
Conv2DLoop(g, out, c, i, j) ==
    IF ~(i < c.dimx) THEN [g |-> g, out |-> out]
    ELSE IF ~(j < c.dimy) THEN Conv2DLoop(g, out, c, i + 1, 0)
    ELSE LET g1 == NewOperator(g, "View", <<c.x>>,
                       <<i * c.xStride, j * c.yStride, Rows(c.w), Columns(c.w)>>)
             g2 == NewOperator(g1, "Dot", <<Last(g1), c.w>>, NoAttr)
         IN  Conv2DLoop(g2, Append(out, Last(g2)), c, i, j + 1)

InitConv2D ==
    /\ \E xr \in 1..MaxDim, xc \in 1..MaxDim, wr \in 1..MaxDim, wc \in 1..MaxDim,
          xStride \in 0..MaxStride, yStride \in 0..MaxStride :
         /\ nodes = NewLeaf(NewLeaf(<<>>, "Variable", TRUE, <<xr, xc>>),
                            "Variable", TRUE, <<wr, wc>>)
         /\ args = [x |-> nodes[1], w |-> nodes[2],
                    xStride |-> xStride, yStride |-> yStride]
    /\ pc = "start"
    /\ local = [before |-> nodes]
    /\ ret = Nil
    /\ grad = Unused
    /\ lock = Unused

\* Conv2D(g, w, x, xStride, yStride): the whole call.
Conv2D ==
    /\ pc = "start"
    /\ LET w == args.w
           x == args.x
           xStride == args.xStride
           yStride == args.yStride
       IN  IF xStride = 0
           THEN /\ ret' = [status |-> "panic", msg |-> DividePanic]
                /\ UNCHANGED nodes
           ELSE IF Conv2DRowsRejected(w, x, xStride)
           THEN /\ ret' = [status |-> "panic", msg |-> RowsPanic]
                /\ UNCHANGED nodes
           ELSE IF yStride = 0
           THEN /\ ret' = [status |-> "panic", msg |-> DividePanic]
                /\ UNCHANGED nodes
           ELSE IF Conv2DColumnsRejected(w, x, yStride)
           THEN /\ ret' = [status |-> "panic", msg |-> ColumnsPanic]
                /\ UNCHANGED nodes
           ELSE LET dimx == GoDiv(Rows(x) - Rows(w), xStride) + 1
                    dimy == GoDiv(Columns(x) - Columns(w), yStride) + 1
                    r  == Conv2DLoop(nodes, <<>>,
                              [w |-> w, x |-> x, xStride |-> xStride,
                               yStride |-> yStride, dimx |-> dimx, dimy |-> dimy],
                              0, 0)
                    g1 == NewOperator(r.g, "Concat", r.out, NoAttr)
                    g2 == NewOperator(g1, "Reshape", <<Last(g1)>>, <<dimx, dimy>>)
                IN  IF ReshapeRejected(Len(r.out), dimx, dimy)
                    THEN /\ nodes' = g1
                         /\ ret' = [status |-> "panic", msg |-> ReshapePanic]
                    ELSE /\ nodes' = g2
                         /\ ret' = [status |-> "returned", node |-> Last(g2)]
    /\ pc' = "done"
    /\ UNCHANGED <<args, local, grad, lock>>

NextConv2D == Conv2D

SpecConv2D == InitConv2D /\ [][NextConv2D]_vars

\* a is a multiple of s.
IsMultiple(a, s) == \E k \in -Abs(a)..Abs(a) : a = k * s

\* C4: Conv2D ends in a panic, the Graph's node sequence being the one
\* before the call, whenever x.rows - w.rows is not a multiple of xStride or
\* x.columns - w.columns is not a multiple of yStride.
Conv2DStridePanics ==
    (/\ pc = "done"
     /\ \/ ~IsMultiple(Rows(args.x) - Rows(args.w), args.xStride)
        \/ ~IsMultiple(Columns(args.x) - Columns(args.w), args.yStride)) =>
        /\ ret.status = "panic"
        /\ nodes = local.before

\* Conv2D was called with rows that fit the stride and columns that do not.
Conv2DColumnsMisfit ==
    /\ pc = "done"
    /\ IsMultiple(Rows(args.x) - Rows(args.w), args.xStride)
    /\ args.xStride # 0
    /\ ~IsMultiple(Columns(args.x) - Columns(args.w), args.yStride)
    /\ args.yStride # 0
    /\ ret.status = "panic"

\* C5: when the kernel w has more rows or more columns than the input x,
\* whatever the strides, Conv2D ends in a panic and returns no node.
Conv2DKernelLargerAborts ==
    (/\ pc = "done"
     /\ \/ Rows(args.w) > Rows(args.x)
        \/ Columns(args.w) > Columns(args.x)) =>
        ret.status = "panic"

----------------------------------------------------------------------------
(* nn.ScaledDotProductAttention and nn.ScaledDotProductAttentionConcurrent, *)
(* src/pkg/ml/nn/transforms.go                                              *)

\* Bound of the attention scenario: the number of queries.
MaxQueries == 2

\* The scale factor the calls are given, in tenths.
ScaledFactor == 20

\* Node.Value(): what the node computes once its value is resolved. With
\* incremental forward the value is there from the node's creation on;
\* without, it is absent until Forward (design document, section 4.2).
Unresolved == <<"nil", <<>>, <<>>>>
NodeValue(n, incremental) == IF incremental THEN Val(n) ELSE Unresolved

\* The setup with divTerm made a node that requires a gradient.
AttentionSetup_DivTermVariable(g, ks, vs, scaledFactor) ==
    LET g1 == NewOperator(g, "Stack", ks, NoAttr)
        g2 == NewOperator(g1, "Stack", vs, NoAttr)
        g3 == NewOperator(g2, "T", <<Last(g2)>>, NoAttr)
        g4 == NewLeaf(g3, "Scalar", TRUE, <<scaledFactor>>)
    IN  [g |-> g4, keys |-> Last(g1), values |-> Last(g3), divTerm |-> Last(g4)]

\* keys := g.Stack(ks...); values := g.T(g.Stack(vs...));
\* divTerm := g.NewScalar(scaledFactor)
AttentionSetup(g, ks, vs, scaledFactor) ==
    LET g1 == NewOperator(g, "Stack", ks, NoAttr)
        g2 == NewOperator(g1, "Stack", vs, NoAttr)
        g3 == NewOperator(g2, "T", <<Last(g2)>>, NoAttr)
        g4 == NewLeaf(g3, "Scalar", FALSE, <<scaledFactor>>)
    IN  [g |-> g4, keys |-> Last(g1), values |-> Last(g3), divTerm |-> Last(g4)]

\* The k-th factory call of the loop body for the query q, made being the
\* nodes the body has made so far:
\*   attScores := g.DivScalar(g.Mul(keys, q), divTerm)
\*   attProbs := g.Softmax(attScores)
\*   context[i] = g.Mul(values, attProbs)
AttentionCall(k, s, q, made) ==
    CASE k = 1 -> [op |-> "Mul", xs |-> <<s.keys, q>>]
      [] k = 2 -> [op |-> "DivScalar", xs |-> <<made[1], s.divTerm>>]
      [] k = 3 -> [op |-> "Softmax", xs |-> <<made[2]>>]
      [] k = 4 -> [op |-> "Mul", xs |-> <<s.values, made[3]>>]

AttentionCalls == 4

\* The loop body for one query, on the calling goroutine alone.
RECURSIVE AttentionBody(_, _, _, _)
AttentionBody(g, s, q, made) ==
    IF Len(made) = AttentionCalls THEN [g |-> g, made |-> made]
    ELSE LET c  == AttentionCall(Len(made) + 1, s, q, made)
             g1 == NewOperator(g, c.op, c.xs, NoAttr)
         IN  AttentionBody(g1, s, q, Append(made, Last(g1)))

\* for i, q := range qs { ... } of ScaledDotProductAttention
RECURSIVE AttentionLoop(_, _, _, _, _, _, _)
AttentionLoop(g, s, qs, i, context, probs, incremental) ==
    IF i > Len(qs) THEN [g |-> g, context |-> context, probs |-> probs]
    ELSE LET b == AttentionBody(g, s, qs[i], <<>>)
         IN  AttentionLoop(b.g, s, qs, i + 1,
                           [context EXCEPT ![i] = b.made[4]],
                           [probs EXCEPT ![i] = NodeValue(b.made[3], incremental)],
                           incremental)

\* ScaledDotProductAttention(g, qs, ks, vs, scaledFactor), from the Graph g.
SequentialAttention(g, qs, ks, vs, scaledFactor, incremental) ==
    LET s == AttentionSetup(g, ks, vs, scaledFactor)
    IN  AttentionLoop(s.g, s, qs, 1,
                      [i \in 1..Len(qs) |-> NilNode],
                      [i \in 1..Len(qs) |-> Unresolved], incremental)

\* The Graph the calls start from: two query leaves, a key and a value leaf.
AttentionGraph == LeafGraph(4)

InitAttention ==
    /\ nodes = AttentionGraph
    /\ \E qs \in SeqsOf({nodes[1], nodes[2]}, 0, MaxQueries),
          concurrent \in BOOLEAN, incremental \in BOOLEAN :
         args = [qs |-> qs, ks |-> <<nodes[3]>>, vs |-> <<nodes[4]>>,
                 scaledFactor |-> ScaledFactor,
                 concurrent |-> concurrent, incremental |-> incremental]
    /\ pc = [main |-> "start", go |-> <<>>]
    /\ local = [before |-> nodes]
    /\ ret = Nil
    /\ grad = Unused
    /\ lock = Unused

\* ScaledDotProductAttention: the whole call.
ScaledDotProductAttention ==
    /\ pc.main = "start"
    /\ ~args.concurrent
    /\ LET r == SequentialAttention(nodes, args.qs, args.ks, args.vs,
                                    args.scaledFactor, args.incremental)
       IN  /\ nodes' = r.g
           /\ ret' = [context |-> r.context, probs |-> r.probs]
    /\ pc' = [pc EXCEPT !.main = "returned"]
    /\ UNCHANGED <<args, local, grad, lock>>

\* ScaledDotProductAttentionConcurrent up to wg.Wait(): the slices, keys,
\* values and divTerm are made, wg.Add(len(qs)), one goroutine per query.
ConcurrentStart ==
    /\ pc.main = "start"
    /\ args.concurrent
    /\ LET s == AttentionSetup(nodes, args.ks, args.vs, args.scaledFactor)
       IN  /\ nodes' = s.g
           /\ local' = [before |-> local.before,
                        keys |-> s.keys, values |-> s.values, divTerm |-> s.divTerm,
                        context |-> [i \in 1..Len(args.qs) |-> NilNode],
                        probs |-> [i \in 1..Len(args.qs) |-> Unresolved],
                        go |-> [i \in 1..Len(args.qs) |->
                                  [made |-> <<>>, snapshot |-> <<>>]]]
    /\ pc' = [main |-> "wait", go |-> [i \in 1..Len(args.qs) |-> "compose"]]
    /\ UNCHANGED <<args, ret, grad, lock>>

\* Goroutine i enters its next factory call: the call reads g.nodes.
GoFactoryEnter(i) ==
    /\ pc.go[i] = "compose"
    /\ local' = [local EXCEPT !.go[i].snapshot = nodes]
    /\ pc' = [pc EXCEPT !.go[i] = "inFactory"]
    /\ UNCHANGED <<nodes, args, ret, grad, lock>>

\* Goroutine i's factory call appends its node to the g.nodes it read and
\* returns. Nothing orders it with the other goroutines' calls, so a node
\* appended in between is overwritten (the Graph is single-writer: design
\* document, section 3).
GoFactoryReturn(i) ==
    /\ pc.go[i] = "inFactory"
    /\ LET me == local.go[i]
           c  == AttentionCall(Len(me.made) + 1, local, args.qs[i], me.made)
           g1 == NewOperator(me.snapshot, c.op, c.xs, NoAttr)
       IN  /\ nodes' = g1
           /\ local' = [local EXCEPT !.go[i].made = Append(me.made, Last(g1)),
                                     !.go[i].snapshot = <<>>]
           /\ pc' = [pc EXCEPT !.go[i] =
                        IF Len(me.made) + 1 = AttentionCalls THEN "store"
                        ELSE "compose"]
    /\ UNCHANGED <<args, ret, grad, lock>>

\* context[i] = ...; probs[i] = attProbs.Value(); wg.Done()
GoStore(i) ==
    /\ pc.go[i] = "store"
    /\ local' = [local EXCEPT
                    !.context[i] = local.go[i].made[4],
                    !.probs[i] = NodeValue(local.go[i].made[3], args.incremental)]
    /\ pc' = [pc EXCEPT !.go[i] = "done"]
    /\ UNCHANGED <<nodes, args, ret, grad, lock>>

\* wg.Wait(); return
ConcurrentReturn ==
    /\ pc.main = "wait"
    /\ \A i \in DOMAIN pc.go : pc.go[i] = "done"
    /\ ret' = [context |-> local.context, probs |-> local.probs]
    /\ pc' = [pc EXCEPT !.main = "returned"]
    /\ UNCHANGED <<nodes, args, local, grad, lock>>

NextAttention ==
    \/ ScaledDotProductAttention
    \/ ConcurrentStart
    \/ \E i \in DOMAIN pc.go : GoFactoryEnter(i)
    \/ \E i \in DOMAIN pc.go : GoFactoryReturn(i)
    \/ \E i \in DOMAIN pc.go : GoStore(i)
    \/ ConcurrentReturn

SpecAttention == InitAttention /\ [][NextAttention]_vars

\* What ScaledDotProductAttention returns for the same operands.
SequentialResult ==
    SequentialAttention(local.before, args.qs, args.ks, args.vs,
                        args.scaledFactor, args.incremental)

\* C6: for every interleaving of its goroutines
\* ScaledDotProductAttentionConcurrent returns what ScaledDotProductAttention
\* returns for the same operands: context and probs of length len(qs) with
\* context[i] = values * softmax((keys * qs[i]) / divTerm) and probs[i] that
\* softmax value, and the same operator nodes added to the Graph, up to
\* their order.
ConcurrentDoesTheSame ==
    (pc.main = "returned" /\ args.concurrent) =>
        /\ Len(ret.context) = Len(args.qs)
        /\ Len(ret.probs) = Len(args.qs)
        /\ \A i \in 1..Len(args.qs) :
              /\ Val(ret.context[i]) = Val(SequentialResult.context[i])
              /\ ret.probs[i] = SequentialResult.probs[i]
        /\ OperatorBag(nodes) = OperatorBag(SequentialResult.g)

\* What no interleaving disturbs: the returned context and probs are those
\* of the sequential function.
ConcurrentReturnsTheSame ==
    (pc.main = "returned" /\ args.concurrent) =>
        /\ Len(ret.context) = Len(args.qs)
        /\ Len(ret.probs) = Len(args.qs)
        /\ \A i \in 1..Len(args.qs) :
              /\ Val(ret.context[i]) = Val(SequentialResult.context[i])
              /\ ret.probs[i] = SequentialResult.probs[i]

\* C7: the Graph is single-writer: at no time are two node-adding factory
\* calls on the one Graph g under way together, in every execution of
\* ScaledDotProductAttentionConcurrent.
SingleWriter ==
    Cardinality({i \in DOMAIN pc.go : pc.go[i] = "inFactory"}) <= 1

\* C8: in every Graph built through factory calls, for every interleaving
\* of the goroutines of ScaledDotProductAttentionConcurrent, each node sits
\* at the position its id names and each of its operands is a node of the
\* Graph with a strictly smaller index, so that a Forward sweep in creation
\* order finds every operand resolved.
TopologicalSafety ==
    \A p \in DOMAIN nodes :
        /\ nodes[p].id = p - 1
        /\ \A k \in DOMAIN nodes[p].xs :
              LET o == nodes[p].xs[k]
              IN  /\ o.id < nodes[p].id
                  /\ o.id + 1 \in DOMAIN nodes
                  /\ nodes[o.id + 1] = o

\* Topological safety of the Graphs that one goroutine builds.
SequentialTopologicalSafety == ~args.concurrent => TopologicalSafety

----------------------------------------------------------------------------
(* scalenorm: Model.NewProc and Processor.Forward, src/unnamed/part_000,   *)
(* followed by Graph.Backward (design document, section 4.4).              *)

\* Bounds of the scale-norm scenario: the inputs of Forward and the
\* Backward calls that follow it.
MaxInputs == 2
MaxBackwardCalls == 2

\* The inputs the Graph holds before NewProc.
NumInputLeaves == 2

\* The seeds Backward is given.
Seeds == {1, 3}

\* An operator's gradient rule is linear in the output gradient: taken here
\* as the multiplication by a fixed local derivative per operator and
\* operand (the values the derivatives depend on do not change during
\* Backward).
LocalDeriv(op, k) ==
    CASE op = "Square" -> 2
      [] op = "ReduceSum" -> 1
      [] op = "Sqrt" -> 3
      [] op = "AddScalar" -> 1
      [] op = "DivScalar" -> IF k = 1 THEN 5 ELSE -7
      [] op = "Prod" -> IF k = 1 THEN 11 ELSE 13
      [] op = "Stack" -> 1
      [] op = "T" -> 1
      [] op = "Mul" -> IF k = 1 THEN 17 ELSE 19
      [] op = "Softmax" -> 23

\* ys[i] with the gain left out: the normalised x alone.
ScaleNormChain_NoGain(g, x, eps, gain) ==
    LET g1 == NewOperator(g, "Square", <<x>>, NoAttr)
        g2 == NewOperator(g1, "ReduceSum", <<Last(g1)>>, NoAttr)
        g3 == NewOperator(g2, "Sqrt", <<Last(g2)>>, NoAttr)
        g4 == NewOperator(g3, "AddScalar", <<Last(g3), eps>>, NoAttr)
        g5 == NewOperator(g4, "DivScalar", <<x, Last(g4)>>, NoAttr)
    IN  g5

\* norm := p.g.Sqrt(p.g.ReduceSum(p.g.Square(x)))
\* ys[i] = p.g.Prod(p.g.DivScalar(x, p.g.AddScalar(norm, eps)), p.gain)
ScaleNormChain(g, x, eps, gain) ==
    LET g1 == NewOperator(g, "Square", <<x>>, NoAttr)
        g2 == NewOperator(g1, "ReduceSum", <<Last(g1)>>, NoAttr)
        g3 == NewOperator(g2, "Sqrt", <<Last(g2)>>, NoAttr)
        g4 == NewOperator(g3, "AddScalar", <<Last(g3), eps>>, NoAttr)
        g5 == NewOperator(g4, "DivScalar", <<x, Last(g4)>>, NoAttr)
        g6 == NewOperator(g5, "Prod", <<Last(g5), gain>>, NoAttr)
    IN  g6

\* for i, x := range xs { ... }
RECURSIVE ScaleNormLoop(_, _, _, _, _, _)
ScaleNormLoop(g, ys, xs, eps, gain, i) ==
    IF i > Len(xs) THEN [g |-> g, ys |-> ys]
    ELSE LET g1 == ScaleNormChain(g, xs[i], eps, gain)
         IN  ScaleNormLoop(g1, [ys EXCEPT ![i] = Last(g1)], xs, eps, gain, i + 1)

\* The target and its transitive operands, by id.
RECURSIVE Cone(_)
Cone(n) == {n.id} \cup UNION {Cone(n.xs[k]) : k \in DOMAIN n.xs}

\* The node n hands its gradient on to its operands from the k-th on: each
\* operand that requires a gradient has the contribution added into its slot.
RECURSIVE PropagateToOperands(_, _, _)
PropagateToOperands(gr, n, k) ==
    IF k > Len(n.xs) THEN gr
    ELSE LET o == n.xs[k]
             c == <<gr[n.id][1] * LocalDeriv(n.op, k)>>
         IN  IF o.requiresGrad
             THEN PropagateToOperands(
                      [gr EXCEPT ![o.id] = PropagateGrad(gr[o.id], c)], n, k + 1)
             ELSE PropagateToOperands(gr, n, k + 1)

\* Graph.Backward's sweep in reverse creation order, from position p down:
\* every operator node among the target's transitive operands that holds a
\* gradient hands it on.
RECURSIVE BackwardSweep(_, _, _, _)
BackwardSweep(g, gr, cone, p) ==
    IF p = 0 THEN gr
    ELSE LET n == g[p]
         IN  IF n.op \notin LeafOps /\ n.id \in cone /\ gr[n.id] # NoGrad
             THEN BackwardSweep(g, PropagateToOperands(gr, n, 1), cone, p - 1)
             ELSE BackwardSweep(g, gr, cone, p - 1)

\* Graph.Backward(target, seed)
GraphBackward(g, gr, target, seed) ==
    BackwardSweep(g, [gr EXCEPT ![target.id] = <<seed>>], Cone(target), Len(g))

InitScaleNorm ==
    /\ \E rg \in [1..NumInputLeaves -> BOOLEAN] :
         nodes = [k \in 1..NumInputLeaves |->
                    [id |-> k - 1, op |-> "Variable", xs |-> <<>>,
                     requiresGrad |-> rg[k], attr |-> <<k>>]]
    /\ \E xs \in SeqsOf(Range(nodes), 0, MaxInputs) : args = [xs |-> xs]
    /\ pc = "start"
    /\ local = [gain |-> NilNode, eps |-> NilNode, calls |-> <<>>]
    /\ ret = <<>>
    /\ grad = <<>>
    /\ lock = Unused

\* Model.NewProc(g): gain: g.NewWrap(m.Gain), a parameter of the model.
NewProc ==
    /\ pc = "start"
    /\ nodes' = NewLeaf(nodes, "Wrap", TRUE, <<0>>)
    /\ local' = [local EXCEPT !.gain = Last(nodes')]
    /\ pc' = "proc"
    /\ UNCHANGED <<args, ret, grad, lock>>

\* Processor.Forward(xs...): the whole call.
ProcessorForward ==
    /\ pc = "proc"
    /\ LET g1 == NewLeaf(nodes, "Scalar", FALSE, <<0>>)
           r  == ScaleNormLoop(g1, [i \in 1..Len(args.xs) |-> NilNode],
                               args.xs, Last(g1), local.gain, 1)
       IN  /\ nodes' = r.g
           /\ ret' = r.ys
           /\ local' = [local EXCEPT !.eps = Last(g1)]
           /\ grad' = [id \in 0..(Len(r.g) - 1) |-> NoGrad]
    /\ pc' = "composed"
    /\ UNCHANGED <<args, lock>>

\* g.Backward(ys[i], seed), the sweep made by the caller alone.
Backward(i, seed) ==
    /\ pc = "composed"
    /\ Len(local.calls) < MaxBackwardCalls
    /\ grad' = GraphBackward(nodes, grad, ret[i], seed)
    /\ local' = [local EXCEPT !.calls = Append(@, [i |-> i, seed |-> seed])]
    /\ UNCHANGED <<nodes, args, pc, ret, lock>>

NextScaleNorm ==
    \/ NewProc
    \/ ProcessorForward
    \/ \E i \in DOMAIN ret, seed \in Seeds : Backward(i, seed)

SpecScaleNorm == InitScaleNorm /\ [][NextScaleNorm]_vars

\* The operator nodes of the Graph that have v among their operands.
Consumers(v) == {c \in Range(nodes) : \E k \in DOMAIN c.xs : c.xs[k] = v}

\* The sum of the contributions cs, absent when there is none.
SumOfContributions(cs) == IF cs = <<>> THEN NoGrad ELSE <<SumSeq(cs)>>

\* The contributions to the k-th operand of the consumers cs (a sequence of
\* nodes) that hold a gradient.
RECURSIVE ContributionsOf(_, _)
ContributionsOf(cs, k) ==
    IF cs = <<>> THEN <<>>
    ELSE LET c == cs[1]
         IN  (IF grad[c.id] = NoGrad THEN <<>>
              ELSE <<grad[c.id][1] * LocalDeriv(c.op, k)>>)
             \o ContributionsOf(Tail(cs), k)

\* The nodes of g with the operator op and v as k-th operand, in order.
RECURSIVE ConsumersIn(_, _, _, _)
ConsumersIn(g, v, op, k) ==
    IF g = <<>> THEN <<>>
    ELSE (IF g[1].op = op /\ Len(g[1].xs) >= k /\ g[1].xs[k] = v
          THEN <<g[1]>> ELSE <<>>) \o ConsumersIn(Tail(g), v, op, k)

\* The consumers of v by operator and operand position.
ConsumersAt(v, op, k) == ConsumersIn(nodes, v, op, k)

\* d ys[i] / d xs[i] by the chain rule over the two paths from ys[i] to
\* xs[i]: through DivScalar's first operand, and through its second operand,
\* AddScalar, Sqrt, ReduceSum and Square.
ChainDeriv ==
    LocalDeriv("Prod", 1) *
        (LocalDeriv("DivScalar", 1) +
         LocalDeriv("DivScalar", 2) * LocalDeriv("AddScalar", 1) *
            LocalDeriv("Sqrt", 1) * LocalDeriv("ReduceSum", 1) *
            LocalDeriv("Square", 1))

\* No ys[i] was the target of two Backward calls.
DistinctTargets ==
    \A a, b \in DOMAIN local.calls :
        local.calls[a].i = local.calls[b].i => a = b

\* The number of i with xs[i] = v.
Occurrences(v) == Cardinality({i \in DOMAIN args.xs : args.xs[i] = v})

\* C9: after Backward the gradient of a node consumed by N operator nodes
\* is the sum of the N contributions: in the scale-norm Forward each input
\* is consumed, per occurrence in xs, by a Square and a DivScalar and holds
\* the sum of exactly their contributions, and the gain is consumed by one
\* Prod per input and holds the sum of those n contributions.
FanOutAccumulation ==
    (pc = "composed" /\ DistinctTargets) =>
        /\ \A i \in DOMAIN args.xs :
              LET x == args.xs[i]
                  squares == ConsumersAt(x, "Square", 1)
                  divs == ConsumersAt(x, "DivScalar", 1)
              IN  /\ Len(squares) = Occurrences(x)
                  /\ Len(divs) = Occurrences(x)
                  /\ Cardinality(Consumers(x)) = 2 * Occurrences(x)
                  /\ grad[x.id] =
                        IF x.requiresGrad
                        THEN SumOfContributions(ContributionsOf(squares, 1)
                                                \o ContributionsOf(divs, 1))
                        ELSE NoGrad
                  /\ \A a \in DOMAIN local.calls :
                        (/\ local.calls[a].i = i
                         /\ Occurrences(x) = 1
                         /\ x.requiresGrad) =>
                            grad[x.id] = <<local.calls[a].seed * ChainDeriv>>
        /\ LET prods == ConsumersAt(local.gain, "Prod", 2)
           IN  /\ Len(prods) = Len(args.xs)
               /\ Range(prods) = Range(ret)
               /\ Consumers(local.gain) = Range(prods)
               /\ grad[local.gain.id] = SumOfContributions(ContributionsOf(prods, 2))
               /\ Len(local.calls) = Len(args.xs) =>
                     grad[local.gain.id] =
                        SumOfContributions([a \in DOMAIN local.calls |->
                            local.calls[a].seed * LocalDeriv("Prod", 2)])

\* Backward has run once from each of two outputs over two distinct inputs
\* that require gradients: the gain holds two contributions and each input
\* its two.
FanOutBothOutputs ==
    /\ pc = "composed"
    /\ Len(args.xs) = 2
    /\ args.xs[1] # args.xs[2]
    /\ args.xs[1].requiresGrad /\ args.xs[2].requiresGrad
    /\ Len(local.calls) = 2
    /\ DistinctTargets
    /\ grad[args.xs[1].id] # NoGrad
    /\ grad[args.xs[2].id] # NoGrad
    /\ grad[local.gain.id] =
          <<(local.calls[1].seed + local.calls[2].seed) * LocalDeriv("Prod", 2)>>

----------------------------------------------------------------------------
(* Graph.Backward in concurrent mode (design document, sections 4.4 and    *)
(* 5): the operators that consume one operand hand their gradients on from *)
(* concurrent workers; the addition into the operand's slot is a read      *)
(* followed by a write, made under the slot's mutex; the call joins the    *)
(* workers before it returns.                                              *)

\* Bounds of the concurrent Backward scenario: the consumers of the shared
\* operand and the workers of the pool.
MaxConsumers == 3
MaxWorkers == 2

\* The shared operand v and n Square nodes over it.
RECURSIVE FanOutGraph(_)
FanOutGraph(n) ==
    IF n = 0 THEN NewLeaf(<<>>, "Variable", TRUE, <<1>>)
    ELSE LET g == FanOutGraph(n - 1)
         IN  NewOperator(g, "Square", <<g[1]>>, NoAttr)

\* The mutex is taken by whoever finds it free, whether it is or not.
MutexFree_Always(l) == TRUE

\* sync.Mutex: free when nobody holds it.
MutexFree(l) == l = 0

InitConcurrentBackward ==
    /\ \E n \in 1..MaxConsumers :
         /\ nodes = FanOutGraph(n)
         /\ \E seeds \in [1..n -> Seeds] :
              \* the gradients the consumers hold when their wave starts
              grad = [id \in 0..n |-> IF id = 0 THEN NoGrad ELSE <<seeds[id]>>]
    /\ \E w \in 1..MaxWorkers : args = [workers |-> w, v |-> nodes[1]]
    /\ pc = [main |-> "start", unit |-> <<>>]
    /\ local = <<>>
    /\ ret = Nil
    /\ lock = 0

\* The units under way on a worker.
ActiveUnits == {j \in DOMAIN pc.unit : pc.unit[j] \notin {"queued", "done"}}

\* The contribution of the consumer j to its operand.
UnitContribution(j) == <<grad[j][1] * LocalDeriv(nodes[j + 1].op, 1)>>

\* Backward dispatches one unit per consumer of v (wg.Add) and waits.
BackwardDispatch ==
    /\ pc.main = "start"
    /\ pc' = [main |-> "wait", unit |-> [j \in 1..(Len(nodes) - 1) |-> "queued"]]
    /\ local' = [j \in 1..(Len(nodes) - 1) |-> NoGrad]
    /\ UNCHANGED <<nodes, args, ret, grad, lock>>

\* A free worker takes the unit j.
UnitStart(j) ==
    /\ pc.unit[j] = "queued"
    /\ Cardinality(ActiveUnits) < args.workers
    /\ pc' = [pc EXCEPT !.unit[j] = "lock"]
    /\ UNCHANGED <<nodes, args, local, ret, grad, lock>>

\* mu.Lock()
UnitLock(j) ==
    /\ pc.unit[j] = "lock"
    /\ MutexFree(lock)
    /\ lock' = j
    /\ pc' = [pc EXCEPT !.unit[j] = "read"]
    /\ UNCHANGED <<nodes, args, local, ret, grad>>

\* The addition reads the slot ...
UnitRead(j) ==
    /\ pc.unit[j] = "read"
    /\ local' = [local EXCEPT ![j] = grad[args.v.id]]
    /\ pc' = [pc EXCEPT !.unit[j] = "write"]
    /\ UNCHANGED <<nodes, args, ret, grad, lock>>

\* ... and writes what it read plus the contribution (creating the slot if
\* it was absent).
UnitWrite(j) ==
    /\ pc.unit[j] = "write"
    /\ grad' = [grad EXCEPT ![args.v.id] = PropagateGrad(local[j], UnitContribution(j))]
    /\ pc' = [pc EXCEPT !.unit[j] = "unlock"]
    /\ UNCHANGED <<nodes, args, local, ret, lock>>

\* mu.Unlock(); wg.Done()
UnitUnlock(j) ==
    /\ pc.unit[j] = "unlock"
    /\ lock' = 0
    /\ pc' = [pc EXCEPT !.unit[j] = "done"]
    /\ UNCHANGED <<nodes, args, local, ret, grad>>

\* wg.Wait(); return
BackwardReturn ==
    /\ pc.main = "wait"
    /\ \A j \in DOMAIN pc.unit : pc.unit[j] = "done"
    /\ pc' = [pc EXCEPT !.main = "returned"]
    /\ ret' = "returned"
    /\ UNCHANGED <<nodes, args, local, grad, lock>>

NextConcurrentBackward ==
    \/ BackwardDispatch
    \/ \E j \in DOMAIN pc.unit : UnitStart(j)
    \/ \E j \in DOMAIN pc.unit : UnitLock(j)
    \/ \E j \in DOMAIN pc.unit : UnitRead(j)
    \/ \E j \in DOMAIN pc.unit : UnitWrite(j)
    \/ \E j \in DOMAIN pc.unit : UnitUnlock(j)
    \/ BackwardReturn

SpecConcurrentBackward == InitConcurrentBackward /\ [][NextConcurrentBackward]_vars

\* C10: in concurrent Backward at most one worker is between the read and
\* the write-back of the shared operand's slot, and for every interleaving
\* the call returns only after every dispatched contribution was added:
\* the operand's gradient is then the sum of all the contributions.
ConcurrentAccumulation ==
    /\ Cardinality({j \in DOMAIN pc.unit :
                       pc.unit[j] \in {"read", "write", "unlock"}}) <= 1
    /\ pc.main = "returned" =>
          /\ \A j \in DOMAIN pc.unit : pc.unit[j] = "done"
          /\ grad[args.v.id] =
                <<SumSeq([j \in 1..(Len(nodes) - 1) |->
                            grad[j][1] * LocalDeriv(nodes[j + 1].op, 1)])>>

\* Backward has returned after two workers added three contributions.
ConcurrentBackwardReturned ==
    /\ pc.main = "returned"
    /\ args.workers = 2
    /\ Len(nodes) = 4
    /\ grad[args.v.id] # NoGrad

----------------------------------------------------------------------------
(* worker.process, src/unnamed/part_000. The Graph's values live in        *)
(* buffers that Clear releases (design document, section 4.5); a matrix is *)
(* the address of its buffer, 0 being the nil matrix.                      *)

\* Bounds of the worker.process scenario: the candidate labels an input may
\* come from and the operator nodes Classify composes.
MaxLabels == 3
MaxClassifyDepth == 3

\* What a released buffer holds.
Released == <<"released", <<>>, <<>>>>

\* The statements of process after g := ag.NewGraph(...); defer g.Clear(),
\* with Forward and GetCopiedValue exchanged.
ProcessSteps_CopyBeforeForward ==
    <<"NewGraph", "Reify", "getInputIDs", "Classify", "GetCopiedValue", "Forward">>

\* The statements of process, in order; defer g.Clear() is part of the first.
ProcessSteps ==
    <<"NewGraph", "Reify", "getInputIDs", "Classify", "Forward", "GetCopiedValue">>

\* The statement process is about to run.
ProcessAt(step) ==
    /\ pc = "running"
    /\ local.next \in DOMAIN ProcessSteps
    /\ ProcessSteps[local.next] = step

\* The statement has run.
ProcessDone(step, l) ==
    [l EXCEPT !.next = @ + 1, !.trace = Append(@, step)]

\* proc.Classify(inputIds): a leaf for the input and depth operator nodes
\* over it, the last being the logits. Its code is not among the sources.
RECURSIVE ClassifyCompose(_, _)
ClassifyCompose(g, depth) ==
    IF depth = 0 THEN g
    ELSE NewOperator(g, "Layer", <<Last(g)>>, <<depth>>)

\* The buffers of the nodes of g that Forward resolves or a leaf brings:
\* values is the address per node, heap the buffers.
RECURSIVE ResolveFrom(_, _, _, _)
ResolveFrom(g, values, heap, p) ==
    IF p > Len(g) THEN [values |-> values, heap |-> heap]
    ELSE IF p <= Len(values) /\ values[p] # 0
         THEN ResolveFrom(g, values, heap, p + 1)
         ELSE ResolveFrom(g,
                 [q \in 1..Len(g) |->
                    IF q = p THEN Len(heap) + 1
                    ELSE IF q <= Len(values) THEN values[q] ELSE 0],
                 Append(heap, Val(g[p])), p + 1)

\* The addresses of the nodes of g, an operator node composed without
\* incremental forward having none yet.
ComposedValues(g, values, heap) ==
    LET leaves == [q \in 1..Len(g) |->
                     IF q <= Len(values) THEN values[q]
                     ELSE IF g[q].op \in LeafOps THEN -1 ELSE 0]
        \* -1: a leaf's buffer, to be allocated
        RECURSIVE Alloc(_, _, _)
        Alloc(vs, h, q) ==
            IF q > Len(vs) THEN [values |-> vs, heap |-> h]
            ELSE IF vs[q] = -1
                 THEN Alloc([vs EXCEPT ![q] = Len(h) + 1], Append(h, Val(g[q])), q + 1)
                 ELSE Alloc(vs, h, q + 1)
    IN  Alloc(leaves, heap, 1)

\* g.GetCopiedValue(n) returning n's own buffer instead of a copy.
CopiedValue_Shared(values, heap, n) ==
    [heap |-> heap, result |-> values[n.id + 1]]

\* g.GetCopiedValue(n): a fresh buffer holding what n's buffer holds; the
\* nil matrix when n has no value yet.
CopiedValue(values, heap, n) ==
    IF values[n.id + 1] = 0 THEN [heap |-> heap, result |-> 0]
    ELSE [heap |-> Append(heap, heap[values[n.id + 1]]), result |-> Len(heap) + 1]

\* g.Clear(): every buffer of the Graph is released.
ClearedHeap(values, heap) ==
    [a \in DOMAIN heap |-> IF a \in Range(values) THEN Released ELSE heap[a]]

InitProcess ==
    /\ nodes = <<>>
    /\ \E index \in 0..(MaxLabels - 1), depth \in 1..MaxClassifyDepth :
         args = [input |-> [index |-> index], depth |-> depth]
    /\ pc = "running"
    /\ local = [next |-> 1, trace |-> <<>>, deferred |-> <<>>,
                values |-> <<>>, heap |-> <<>>, logits |-> NilNode,
                inputIds |-> <<>>, result |-> 0, expected |-> Unresolved]
    /\ ret = 0
    /\ grad = Unused
    /\ lock = Unused

\* g := ag.NewGraph(ag.ConcurrentComputations(...), ag.IncrementalForward(false))
\* defer g.Clear()
ProcessNewGraph ==
    /\ ProcessAt("NewGraph")
    /\ nodes' = <<>>
    /\ local' = [ProcessDone("NewGraph", local) EXCEPT !.deferred = <<"Clear">>]
    /\ UNCHANGED <<args, pc, ret, grad, lock>>

\* proc := nn.Reify(nn.Context{Graph: g, Mode: nn.Inference}, w.model)
ProcessReify ==
    /\ ProcessAt("Reify")
    /\ local' = ProcessDone("Reify", local)
    /\ UNCHANGED <<nodes, args, pc, ret, grad, lock>>

\* inputIds := getInputIDs(w.tokenizer, input.premise, input.hypothesis)
ProcessGetInputIDs ==
    /\ ProcessAt("getInputIDs")
    /\ local' = [ProcessDone("getInputIDs", local) EXCEPT
                    !.inputIds = <<args.input.index>>]
    /\ UNCHANGED <<nodes, args, pc, ret, grad, lock>>

\* logits := proc.Classify(inputIds)
ProcessClassify ==
    /\ ProcessAt("Classify")
    /\ LET g == ClassifyCompose(NewLeaf(nodes, "Variable", FALSE, local.inputIds),
                                args.depth)
           m == ComposedValues(g, local.values, local.heap)
       IN  /\ nodes' = g
           /\ local' = [ProcessDone("Classify", local) EXCEPT
                           !.logits = Last(g), !.values = m.values,
                           !.heap = m.heap, !.expected = Val(Last(g))]
    /\ UNCHANGED <<args, pc, ret, grad, lock>>

\* g.Forward()
ProcessForward ==
    /\ ProcessAt("Forward")
    /\ LET m == ResolveFrom(nodes, local.values, local.heap, 1)
       IN  local' = [ProcessDone("Forward", local) EXCEPT
                        !.values = m.values, !.heap = m.heap]
    /\ UNCHANGED <<nodes, args, pc, ret, grad, lock>>

\* return g.GetCopiedValue(logits): the result is evaluated, the deferred
\* calls are still to run.
ProcessGetCopiedValue ==
    /\ ProcessAt("GetCopiedValue")
    /\ LET m == CopiedValue(local.values, local.heap, local.logits)
       IN  local' = [ProcessDone("GetCopiedValue", local) EXCEPT
                        !.heap = m.heap, !.result = m.result]
    /\ UNCHANGED <<nodes, args, pc, ret, grad, lock>>

\* A statement after the defer panics (a failed type assertion in Reify, a
\* shape error in Classify, ...): the stack unwinds.
ProcessPanic ==
    /\ pc = "running"
    /\ local.next \in DOMAIN ProcessSteps
    /\ local.next > 1
    /\ pc' = "panicking"
    /\ local' = [local EXCEPT !.trace = Append(@, "panic")]
    /\ UNCHANGED <<nodes, args, ret, grad, lock>>

\* The deferred g.Clear() runs, on the way out of a return or of a panic.
ProcessDeferredClear ==
    /\ \/ pc = "running" /\ local.next > Len(ProcessSteps)
       \/ pc = "panicking"
    /\ local.deferred = <<"Clear">>
    /\ nodes' = <<>>
    /\ local' = [local EXCEPT !.deferred = <<>>,
                              !.trace = Append(@, "Clear"),
                              !.heap = ClearedHeap(local.values, local.heap),
                              !.values = <<>>]
    /\ UNCHANGED <<args, pc, ret, grad, lock>>

\* process hands its result, or the panic, to its caller.
ProcessExit ==
    /\ local.deferred = <<>>
    /\ \/ /\ pc = "running" /\ local.next > Len(ProcessSteps)
          /\ pc' = "returned"
          /\ ret' = local.result
       \/ /\ pc = "panicking"
          /\ pc' = "panicked"
          /\ UNCHANGED ret
    /\ UNCHANGED <<nodes, args, local, grad, lock>>

NextProcess ==
    \/ ProcessNewGraph
    \/ ProcessReify
    \/ ProcessGetInputIDs
    \/ ProcessClassify
    \/ ProcessForward
    \/ ProcessGetCopiedValue
    \/ ProcessPanic
    \/ ProcessDeferredClear
    \/ ProcessExit

SpecProcess == InitProcess /\ [][NextProcess]_vars

\* C11: worker.process uses its Graph in the order compose (Classify),
\* Forward, GetCopiedValue, Clear: the logits are read after Forward has
\* resolved them, the copy is taken before Clear, Clear has run on every
\* exit (return or panic), and the matrix returned holds the logits after
\* that Clear.
ProcessLifecycle ==
    /\ pc \in {"returned", "panicked"} =>
          /\ Last(local.trace) = "Clear"
          /\ Cardinality({k \in DOMAIN local.trace : local.trace[k] = "Clear"}) = 1
          /\ nodes = <<>>
    /\ pc = "returned" =>
          /\ local.trace = <<"NewGraph", "Reify", "getInputIDs", "Classify",
                             "Forward", "GetCopiedValue", "Clear">>
          /\ ret # 0
          /\ local.heap[ret] = local.expected
          /\ local.expected # Unresolved
          /\ \A a \in DOMAIN local.heap : a # ret => local.heap[a] = Released

\* process has returned the logits of a three-layer classification.
ProcessReturned ==
    /\ pc = "returned"
    /\ args.depth = 3
    /\ ret # 0
    /\ local.heap[ret] = local.expected

----------------------------------------------------------------------------
(* Forward and Backward called again on the composed scale-norm Graph      *)
(* (design document, sections 4.3 and 4.4).                                *)

\* How many times Graph.Forward is called.
MaxForwardCalls == 2

\* Graph.Forward(): the leaves hold their values, every operator node
\* without a value has it computed, in creation order.
GraphForward(g, values, heap) ==
    LET c == ComposedValues(g, values, heap)
    IN  ResolveFrom(g, c.values, c.heap, 1)

InitRepeat ==
    /\ \E rg \in [1..NumInputLeaves -> BOOLEAN] :
         nodes = [k \in 1..NumInputLeaves |->
                    [id |-> k - 1, op |-> "Variable", xs |-> <<>>,
                     requiresGrad |-> rg[k], attr |-> <<k>>]]
    /\ \E xs \in SeqsOf(Range(nodes), 1, MaxInputs) : args = [xs |-> xs]
    /\ pc = "start"
    /\ local = [gain |-> NilNode, eps |-> NilNode, calls |-> <<>>,
                values |-> <<>>, heap |-> <<>>, forwards |-> 0]
    /\ ret = <<>>
    /\ grad = <<>>
    /\ lock = Unused

\* g.Forward(), no node having been added since the Graph was composed.
RepeatForward ==
    /\ pc = "composed"
    /\ local.forwards < MaxForwardCalls
    /\ LET m == GraphForward(nodes, local.values, local.heap)
       IN  local' = [local EXCEPT !.values = m.values, !.heap = m.heap,
                                  !.forwards = @ + 1]
    /\ UNCHANGED <<nodes, args, pc, ret, grad, lock>>

NextRepeat ==
    \/ NewProc
    \/ ProcessorForward
    \/ RepeatForward
    \/ \E i \in DOMAIN ret, seed \in Seeds : Backward(i, seed)

SpecRepeat == InitRepeat /\ [][NextRepeat]_vars

\* The step is a Forward after the first.
SecondForwardStep ==
    /\ local.forwards >= 1
    /\ local'.forwards = local.forwards + 1

\* The step is the second Backward, with the target and seed of the first.
SecondBackwardStep ==
    /\ Len(local.calls) = 1
    /\ local'.calls = <<local.calls[1], local.calls[1]>>

\* k times the gradient gx, absent when gx is.
Times(k, gx) == IF gx = NoGrad THEN NoGrad ELSE <<k * gx[1]>>

\* C12: calling Forward a second time without adding nodes leaves every
\* Value (and every buffer) as it was, nothing being recomputed, and calling
\* Backward a second time with the same target and seed without clearing
\* leaves every gradient at twice what the first call left.
RepeatDoubles ==
    [][/\ SecondForwardStep =>
             local'.values = local.values /\ local'.heap = local.heap
       /\ SecondBackwardStep =>
             \A id \in DOMAIN grad : grad'[id] = Times(2, grad[id])]_vars

\* What the second Backward does leave: the target keeps the seed, its
\* operands (DivScalar and the gain) hold twice their first gradient, and
\* each node further down has the accumulated gradient of its consumer
\* handed on again, so AddScalar holds 3 times, Sqrt 4, ReduceSum 5 and
\* Square 6 times its first gradient, and the input 3 times its share
\* through DivScalar plus 7 times its share through Square; a constant stays
\* without gradient. The second Forward changes nothing.
RepeatAccumulates ==
    [][/\ SecondForwardStep =>
             local'.values = local.values /\ local'.heap = local.heap
       /\ SecondBackwardStep =>
             LET c == local.calls[1]
                 t == ret[c.i]
                 d == t.xs[1]
                 a == d.xs[2]
                 q == a.xs[1]
                 r == q.xs[1]
                 sq == r.xs[1]
                 x == d.xs[1]
                 viaDiv == c.seed * LocalDeriv("Prod", 1) * LocalDeriv("DivScalar", 1)
                 viaSquare == c.seed * ChainDeriv - viaDiv
             IN  /\ grad[t.id] = <<c.seed>>
                 /\ grad'[t.id] = <<c.seed>>
                 /\ grad'[d.id] = Times(2, grad[d.id])
                 /\ grad'[local.gain.id] = Times(2, grad[local.gain.id])
                 /\ grad'[a.id] = Times(3, grad[a.id])
                 /\ grad'[q.id] = Times(4, grad[q.id])
                 /\ grad'[r.id] = Times(5, grad[r.id])
                 /\ grad'[sq.id] = Times(6, grad[sq.id])
                 /\ sq.xs[1] = x
                 /\ x.requiresGrad =>
                        /\ grad[x.id] = <<viaDiv + viaSquare>>
                        /\ grad'[x.id] = <<3 * viaDiv + 7 * viaSquare>>
                 /\ ~x.requiresGrad => grad'[x.id] = NoGrad
                 /\ grad'[local.eps.id] = NoGrad
                 /\ \A id \in DOMAIN grad : id \notin Cone(t) => grad'[id] = grad[id]]_vars

\* Forward has run twice and Backward twice from the same output with the
\* same seed, over an input that requires a gradient.
RepeatedTwice ==
    /\ pc = "composed"
    /\ local.forwards = 2
    /\ Len(local.calls) = 2
    /\ local.calls[1] = local.calls[2]
    /\ args.xs[local.calls[1].i].requiresGrad
    /\ grad[args.xs[local.calls[1].i].id] # NoGrad

----------------------------------------------------------------------------
(* Backward over ScaledDotProductAttention followed by the scale-norm      *)
(* Forward: the constants divTerm and eps among the operands.              *)

\* The leaves of the Graph: two queries, a key and a value, each requiring
\* a gradient or not.
InitSink ==
    /\ \E rg \in [1..4 -> BOOLEAN] :
         nodes = [k \in 1..4 |->
                    [id |-> k - 1, op |-> "Variable", xs |-> <<>>,
                     requiresGrad |-> rg[k], attr |-> <<k>>]]
    /\ args = [xs |-> <<>>]
    /\ pc = "start"
    /\ local = [gain |-> NilNode, eps |-> NilNode, calls |-> <<>>,
                divTerm |-> NilNode, scores |-> <<>>]
    /\ ret = <<>>
    /\ grad = <<>>
    /\ lock = Unused

\* context, _ := ScaledDotProductAttention(g, qs, ks, vs, scaledFactor), the
\* context nodes being the inputs the scale-norm Forward is then given.
SinkAttend(qs) ==
    /\ pc = "proc"
    /\ args.xs = <<>>
    /\ LET ks == <<nodes[3]>>
           vs == <<nodes[4]>>
           r  == SequentialAttention(nodes, qs, ks, vs, ScaledFactor, TRUE)
       IN  /\ nodes' = r.g
           /\ args' = [xs |-> r.context]
           /\ local' = [local EXCEPT
                          !.divTerm = AttentionSetup(nodes, ks, vs, ScaledFactor).divTerm,
                          !.scores = [i \in DOMAIN qs |-> r.context[i].xs[2].xs[1]]]
    /\ UNCHANGED <<pc, ret, grad, lock>>

\* ys := proc.Forward(context...)
SinkNormalise ==
    /\ args.xs # <<>>
    /\ ProcessorForward

NextSink ==
    \/ NewProc
    \/ \E qs \in SeqsOf({nodes[1], nodes[2]}, 1, MaxQueries) : SinkAttend(qs)
    \/ SinkNormalise
    \/ \E i \in DOMAIN ret, seed \in Seeds : Backward(i, seed)

SpecSink == InitSink /\ [][NextSink]_vars

\* The AddScalar(norm, eps) node of the chain that ends in y.
AddScalarOf(y) == y.xs[1].xs[2]

\* C13: constants are gradient sinks. After any Backward a node that does
\* not require a gradient holds none, so eps of the scale-norm Forward and
\* divTerm of ScaledDotProductAttention hold none and nothing is handed on
\* through them, while the other operand of their operator, which requires a
\* gradient, still receives its contribution: the norm under
\* AddScalar(norm, eps) and Mul(keys, q) under DivScalar(..., divTerm).
ConstantsAreSinks ==
    pc = "composed" =>
        /\ \A n \in Range(nodes) : ~n.requiresGrad => grad[n.id] = NoGrad
        /\ ~local.eps.requiresGrad /\ grad[local.eps.id] = NoGrad
        /\ ~local.divTerm.requiresGrad /\ grad[local.divTerm.id] = NoGrad
        /\ local.eps.xs = <<>> /\ local.divTerm.xs = <<>>
        /\ \A i \in DOMAIN ret :
              LET a == AddScalarOf(ret[i])
                  norm == a.xs[1]
                  d == local.scores[i]
                  m == d.xs[1]
              IN  /\ a.op = "AddScalar" /\ a.xs[2] = local.eps
                  /\ d.op = "DivScalar" /\ d.xs[2] = local.divTerm
                  /\ (grad[a.id] # NoGrad /\ norm.requiresGrad) =>
                        /\ grad[norm.id] # NoGrad
                        /\ DistinctTargets =>
                              grad[norm.id] = <<grad[a.id][1] * LocalDeriv("AddScalar", 1)>>
                  /\ (grad[d.id] # NoGrad /\ m.requiresGrad) =>
                        /\ grad[m.id] # NoGrad
                        /\ DistinctTargets =>
                              grad[m.id] = <<grad[d.id][1] * LocalDeriv("DivScalar", 1)>>

\* Backward has reached both operators that have a constant operand: the
\* norm and Mul(keys, q) hold a gradient, eps and divTerm hold none.
SinkReached ==
    /\ pc = "composed"
    /\ Len(local.calls) >= 1
    /\ LET i == local.calls[1].i
       IN  /\ grad[AddScalarOf(ret[i]).id] # NoGrad
           /\ grad[AddScalarOf(ret[i]).xs[1].id] # NoGrad
           /\ grad[local.scores[i].id] # NoGrad
           /\ grad[local.scores[i].xs[1].id] # NoGrad
    /\ grad[local.eps.id] = NoGrad
    /\ grad[local.divTerm.id] = NoGrad

----------------------------------------------------------------------------
(* Affine: the pairs with a nil x.                                         *)

\* The nodes the call has added to the Graph, in order.
AffineCreated == SubSeq(nodes, Len(local.before) + 1, Len(nodes))

\* The pairs after the first whose x is not nil, by pair index (the k-th
\* pair is xs[2k] and xs[2k + 1], counting the operands from 1).
LaterPairsWithX ==
    {k \in 2..((Len(args.xs) - 1) \div 2) : args.xs[2 * k + 1] # NilNode}

\* The number of nodes of g with the operator op.
CountOp(g, op) == Cardinality({p \in DOMAIN g : g[p].op = op})

\* C14: Affine skips every pair after the first whose x is nil: no Mul and
\* no Add node is created for it; the first pair is multiplied and added
\* whatever its x; the Add nodes created are 1 plus the later pairs with a
\* non-nil x, and so are the Mul nodes.
AffineSkipsNilPairs ==
    (pc = "done" /\ ret.status = "returned") =>
        LET xs == args.xs
            made == AffineCreated
        IN  /\ CountOp(made, "Add") = 1 + Cardinality(LaterPairsWithX)
            /\ CountOp(made, "Mul") = 1 + Cardinality(LaterPairsWithX)
            /\ Len(made) = 2 * (1 + Cardinality(LaterPairsWithX))
            /\ made[1].op = "Mul" /\ made[1].xs = <<xs[2], xs[3]>>
            /\ made[2].op = "Add" /\ made[2].xs = <<xs[1], made[1]>>
            /\ \A p \in 3..Len(made) :
                  made[p].op = "Mul" => made[p].xs[2] # NilNode
            /\ \A k \in LaterPairsWithX :
                  \E p \in 3..Len(made) :
                      /\ made[p].op = "Mul"
                      /\ made[p].xs = <<xs[2 * k], xs[2 * k + 1]>>
                      /\ made[p + 1].op = "Add"
                      /\ made[p + 1].xs[2] = made[p]
            /\ ret.node = Last(made)

\* Affine has returned from five operands with the x of the first pair and
\* the x of the second pair both nil: one Mul and one Add were made.
AffineSkippedNilPair ==
    /\ pc = "done"
    /\ ret.status = "returned"
    /\ Len(args.xs) = 5
    /\ args.xs[3] = NilNode
    /\ args.xs[5] = NilNode
    /\ Len(AffineCreated) = 2

----------------------------------------------------------------------------
(* Server.classifyNLI, src/unnamed/part_000:101-172, with its worker pool. *)
(* The pool (pkg/utils/workerpool) is not among the sources: New(size)     *)
(* makes a pool of size workers, Run starts one goroutine per worker, each *)
(* taking jobs one at a time and passing them to the callback with its     *)
(* worker id, and returns when they have all ended; PublishJobData hands a *)
(* job to a worker that is free to take it and waits until one is.         *)

\* The CPUs the machine may have.
MaxCPU == 6

NoErr == "nil"
EntailmentErr == "server: entailment label not found"
ContradictionErr == "server: contradiction label not found"

\* The label maps tried: the MNLI ids of BART, with any of the labels missing.
Label2IDs ==
    LET full == [l \in {"contradiction", "neutral", "entailment"} |->
                    CASE l = "contradiction" -> 0
                      [] l = "neutral" -> 1
                      [] l = "entailment" -> 2]
    IN  {[l \in S |-> full[l]] : S \in SUBSET DOMAIN full}

\* The lookup with the contradiction label not tested for: a missing key
\* reads as Go's zero value.
GetEntailmentAndContradictionIDs_Unchecked(labels2id) ==
    IF "entailment" \notin DOMAIN labels2id
    THEN [entailmentID |-> -1, contradictionID |-> -1, err |-> EntailmentErr]
    ELSE [entailmentID |-> labels2id["entailment"],
          contradictionID |-> IF "contradiction" \in DOMAIN labels2id
                              THEN labels2id["contradiction"] ELSE 0,
          err |-> NoErr]

\* s.getEntailmentAndContradictionIDs()
GetEntailmentAndContradictionIDs(labels2id) ==
    IF "entailment" \notin DOMAIN labels2id
    THEN [entailmentID |-> -1, contradictionID |-> -1, err |-> EntailmentErr]
    ELSE IF "contradiction" \notin DOMAIN labels2id
    THEN [entailmentID |-> -1, contradictionID |-> -1, err |-> ContradictionErr]
    ELSE [entailmentID |-> labels2id["entailment"],
          contradictionID |-> labels2id["contradiction"],
          err |-> NoErr]

\* Every goroutine of the pool using the first worker object.
WorkerObjectOf_Shared(workerID) == 1

\* workers[workerID]: the worker object the pool's goroutine workerID uses
\* (ids count from 1 here, from 0 in Go).
WorkerObjectOf(workerID) == workerID

\* The nil matrix, and what process returns for the job with this index.
NilMatrix == <<>>
LogitsFor(index) == <<"logits", index>>

\* A goroutine of the pool that Run has not started.
Unstarted == [state |-> "unstarted", job |-> 0, graph |-> 0]

InitClassify ==
    /\ nodes = <<>>
    /\ \E n \in 1..MaxLabels, cpus \in 1..MaxCPU, l2id \in Label2IDs :
         args = [numLabels |-> n, numCPU |-> cpus, labels2id |-> l2id]
    /\ pc = "lookup"
    /\ local = [ids |-> [entailmentID |-> 0, contradictionID |-> 0, err |-> NoErr],
                logits |-> <<>>, writes |-> <<>>, numWorkers |-> 0,
                pool |-> FALSE, inUse |-> <<>>, wg |-> 0, run |-> "none",
                gor |-> <<>>, i |-> 0, published |-> 0]
    /\ ret = [response |-> "none", err |-> "none"]
    /\ grad = Unused
    /\ lock = Unused

\* entailmentID, contradictionID, err := s.getEntailmentAndContradictionIDs()
\* if err != nil { return nil, err }
ClassifyLookup ==
    /\ pc = "lookup"
    /\ LET r == GetEntailmentAndContradictionIDs(args.labels2id)
       IN  /\ local' = [local EXCEPT !.ids = r]
           /\ IF r.err # NoErr
              THEN /\ pc' = "returned"
                   /\ ret' = [response |-> "nil", err |-> r.err]
              ELSE /\ pc' = "setup"
                   /\ UNCHANGED ret
    /\ UNCHANGED <<nodes, args, grad, lock>>

\* logits := make(...); numWorkers := runtime.NumCPU() / 2;
\* wp := workerpool.New(numWorkers); workers := s.newWorkers(numWorkers);
\* wg := sync.WaitGroup{}
ClassifySetup ==
    /\ pc = "setup"
    /\ LET numWorkers == GoDiv(args.numCPU, 2)
       IN  local' = [local EXCEPT
                        !.logits = [k \in 1..args.numLabels |-> NilMatrix],
                        !.writes = [k \in 1..args.numLabels |-> 0],
                        !.numWorkers = numWorkers,
                        !.pool = TRUE,
                        !.inUse = [k \in 1..numWorkers |-> 0],
                        !.gor = [k \in 1..numWorkers |-> Unstarted],
                        !.wg = 0]
    /\ pc' = "go"
    /\ UNCHANGED <<nodes, args, ret, grad, lock>>

\* go wp.Run(func(workerID int, jobData interface{}) { ... })
ClassifyGoRun ==
    /\ pc = "go"
    /\ local' = [local EXCEPT !.run = "started"]
    /\ pc' = "loop"
    /\ UNCHANGED <<nodes, args, ret, grad, lock>>

\* wp.Run: the workers' goroutines are started; Run waits for them to end,
\* which is at once when there is none.
PoolRun ==
    /\ local.run = "started"
    /\ local' = [local EXCEPT
                    !.run = IF local.numWorkers = 0 THEN "ended" ELSE "waiting",
                    !.gor = [k \in DOMAIN local.gor |->
                               [state |-> "receiving", job |-> 0, graph |-> 0]]]
    /\ UNCHANGED <<nodes, args, pc, ret, grad, lock>>

\* for i, label := range candidateLabels { wg.Add(1); ...
ClassifyWgAdd ==
    /\ pc = "loop"
    /\ local.i < args.numLabels
    /\ local' = [local EXCEPT !.wg = @ + 1]
    /\ pc' = "publish"
    /\ UNCHANGED <<nodes, args, ret, grad, lock>>

\* ... wp.PublishJobData(premiseHypothesisPair{index: i, ...}) }: the job
\* passes to the pool goroutine w, which is free to take it.
PoolHandoff(w) ==
    /\ pc = "publish"
    /\ local.gor[w].state = "receiving"
    /\ local' = [local EXCEPT
                    !.gor[w] = [state |-> "received", job |-> local.i + 1, graph |-> 0],
                    !.i = @ + 1,
                    !.published = @ + 1]
    /\ pc' = IF local.i + 1 = args.numLabels THEN "wait" ELSE "loop"
    /\ UNCHANGED <<nodes, args, ret, grad, lock>>

\* data := jobData.(premiseHypothesisPair); workers[workerID].process(data)
\* begins: g := ag.NewGraph(...)
WorkerProcess(w) ==
    /\ local.gor[w].state = "received"
    /\ nodes' = Append(nodes, [job |-> local.gor[w].job,
                               worker |-> WorkerObjectOf(w), cleared |-> FALSE])
    /\ local' = [local EXCEPT
                    !.gor[w].state = "processing",
                    !.gor[w].graph = Len(nodes) + 1,
                    !.inUse[WorkerObjectOf(w)] = @ + 1]
    /\ UNCHANGED <<args, pc, ret, grad, lock>>

\* process returns (its Graph cleared) and logits[data.index] is assigned.
WorkerStore(w) ==
    /\ local.gor[w].state = "processing"
    /\ nodes' = [nodes EXCEPT ![local.gor[w].graph].cleared = TRUE]
    /\ local' = [local EXCEPT
                    !.gor[w].state = "stored",
                    !.inUse[WorkerObjectOf(w)] = @ - 1,
                    !.logits[local.gor[w].job] = LogitsFor(local.gor[w].job),
                    !.writes[local.gor[w].job] = @ + 1]
    /\ UNCHANGED <<args, pc, ret, grad, lock>>

\* wg.Done(); the callback returns and the goroutine waits for a job again.
WorkerDone(w) ==
    /\ local.gor[w].state = "stored"
    /\ local' = [local EXCEPT
                    !.gor[w] = [state |-> "receiving", job |-> 0, graph |-> 0],
                    !.wg = @ - 1]
    /\ UNCHANGED <<nodes, args, pc, ret, grad, lock>>

\* wg.Wait()
ClassifyWait ==
    /\ pc = "wait"
    /\ local.wg = 0
    /\ pc' = "scores"
    /\ UNCHANGED <<nodes, args, local, ret, grad, lock>>

\* The scores are computed from the logits (a nil logits cannot be read)
\* and the response is returned.
ClassifyReturn ==
    /\ pc = "scores"
    /\ ret' = IF \E k \in DOMAIN local.logits : local.logits[k] = NilMatrix
              THEN [response |-> "panic", err |-> "nil pointer dereference"]
              ELSE [response |-> "ClassifyResponse", err |-> NoErr]
    /\ pc' = "returned"
    /\ UNCHANGED <<nodes, args, local, grad, lock>>

NextClassify ==
    \/ ClassifyLookup
    \/ ClassifySetup
    \/ ClassifyGoRun
    \/ PoolRun
    \/ ClassifyWgAdd
    \/ \E w \in DOMAIN local.gor : PoolHandoff(w)
    \/ \E w \in DOMAIN local.gor : WorkerProcess(w)
    \/ \E w \in DOMAIN local.gor : WorkerStore(w)
    \/ \E w \in DOMAIN local.gor : WorkerDone(w)
    \/ ClassifyWait
    \/ ClassifyReturn

SpecClassify == InitClassify /\ [][NextClassify]_vars

\* The pool goroutines that hold a job, from its receipt to wg.Done.
Busy == {w \in DOMAIN local.gor : local.gor[w].state # "receiving"
                                    /\ local.gor[w].state # "unstarted"}

\* C15: in every interleaving of the pool's workers, when wg.Wait has
\* returned every index i has had logits[i] written exactly once, with the
\* result for candidateLabels[i]; no slot is ever written twice and no two
\* jobs in progress have the same index; the scores are computed only after
\* every slot was written; each job has run on a Graph of its own; and
\* no worker object is in use by two jobs at the same time.
ClassifyJobsIsolated ==
    /\ \A k \in DOMAIN local.writes : local.writes[k] <= 1
    /\ \A k \in DOMAIN local.logits :
          local.logits[k] = IF local.writes[k] = 1 THEN LogitsFor(k) ELSE NilMatrix
    /\ \A v, w \in Busy : local.gor[v].job = local.gor[w].job => v = w
    /\ \A o \in DOMAIN local.inUse : local.inUse[o] <= 1
    /\ \A a, b \in DOMAIN nodes : nodes[a].job = nodes[b].job => a = b
    /\ \A v, w \in Busy :
          (local.gor[v].graph # 0 /\ local.gor[v].graph = local.gor[w].graph) => v = w
    /\ \A w \in Busy :
          local.gor[w].state = "processing" =>
             /\ nodes[local.gor[w].graph].job = local.gor[w].job
             /\ ~nodes[local.gor[w].graph].cleared
    /\ (pc = "scores" \/ (pc = "returned" /\ ret.err = NoErr)) =>
          /\ \A k \in 1..args.numLabels :
                local.writes[k] = 1 /\ local.logits[k] = LogitsFor(k)
          /\ Len(local.logits) = args.numLabels
          /\ Len(nodes) = args.numLabels
          /\ \A a \in DOMAIN nodes : nodes[a].cleared
          /\ Busy = {}
          /\ pc = "returned" => ret.response = "ClassifyResponse"

\* wg.Wait has returned after three jobs that two workers shared, two of
\* them having been inside process at the same time.
ClassifyAllWritten ==
    /\ pc = "scores"
    /\ args.numLabels = 3
    /\ {nodes[a].worker : a \in DOMAIN nodes} = {1, 2}
    /\ \E a \in DOMAIN nodes : a > 1 /\ nodes[a].worker # nodes[a - 1].worker
    /\ \A k \in 1..3 : local.writes[k] = 1

----------------------------------------------------------------------------
(* Conv2D: the grid of views.                                              *)

\* The nodes the call has added to the Graph, in order.
Conv2DCreated == SubSeq(nodes, Len(local.before) + 1, Len(nodes))

\* Conv2D was called with strides that pass both stride tests.
Conv2DPassedStrideChecks ==
    /\ pc = "done"
    /\ args.xStride # 0
    /\ args.yStride # 0
    /\ IsMultiple(Rows(args.x) - Rows(args.w), args.xStride)
    /\ IsMultiple(Columns(args.x) - Columns(args.w), args.yStride)

\* The grid the claim describes, for a call that is over.
Conv2DGridMade ==
    LET x == args.x
        w == args.w
        dimx == GoDiv(Rows(x) - Rows(w), args.xStride) + 1
        dimy == GoDiv(Columns(x) - Columns(w), args.yStride) + 1
        made == Conv2DCreated
    IN  /\ dimx >= 1
        /\ dimy >= 1
        /\ ret.status = "returned"
        /\ CountOp(made, "View") = dimx * dimy
        /\ CountOp(made, "Dot") = dimx * dimy
        /\ Len(made) = 2 * dimx * dimy + 2
        /\ \A i \in 0..(dimx - 1), j \in 0..(dimy - 1) :
              LET p == 2 * (i * dimy + j) + 1
                  view == made[p]
                  dot == made[p + 1]
              IN  /\ view.op = "View" /\ view.xs = <<x>>
                  /\ view.attr = <<i * args.xStride, j * args.yStride,
                                   Rows(w), Columns(w)>>
                  /\ view.attr[1] >= 0
                  /\ view.attr[1] + view.attr[3] <= Rows(x)
                  /\ view.attr[2] >= 0
                  /\ view.attr[2] + view.attr[4] <= Columns(x)
                  /\ dot.op = "Dot" /\ dot.xs = <<view, w>>
                  /\ made[Len(made) - 1].xs[i * dimy + j + 1] = dot
        /\ made[Len(made) - 1].op = "Concat"
        /\ Len(made[Len(made) - 1].xs) = dimx * dimy
        /\ ret.node = Last(made)
        /\ ret.node.op = "Reshape"
        /\ ret.node.xs = <<made[Len(made) - 1]>>
        /\ ret.node.attr = <<dimx, dimy>>

\* C16: when Conv2D passes the stride checks it creates exactly dimx*dimy
\* View nodes and dimx*dimy Dot nodes, with dimx = (x.rows - w.rows)/xStride
\* + 1 >= 1 and dimy likewise >= 1; the view of cell (i, j) starts at
\* (i*xStride, j*yStride), has the shape of the kernel and lies inside x;
\* the Dot nodes are concatenated row by row and the node returned has the
\* shape dimx by dimy.
Conv2DGrid == Conv2DPassedStrideChecks => Conv2DGridMade

\* The same for a kernel no larger than the input (what the code does do).
Conv2DGridWhenKernelFits ==
    (/\ Conv2DPassedStrideChecks
     /\ Rows(args.w) <= Rows(args.x)
     /\ Columns(args.w) <= Columns(args.x)) => Conv2DGridMade

----------------------------------------------------------------------------
(* classifyNLI: the label lookup, termination and the goroutines left.     *)

\* C17: if the label map lacks "entailment" or "contradiction", classifyNLI
\* returns a nil response and a non-nil error, the lookup having returned
\* both ids as -1, and nothing else was touched: no worker pool was made, no
\* goroutine started, no Graph built and no job published.
ClassifyMissingLabelReturnsEarly ==
    (/\ pc # "lookup"
     /\ \/ "entailment" \notin DOMAIN args.labels2id
        \/ "contradiction" \notin DOMAIN args.labels2id) =>
        /\ pc = "returned"
        /\ ret.response = "nil"
        /\ ret.err \in {EntailmentErr, ContradictionErr}
        /\ ret.err # NoErr
        /\ local.ids.entailmentID = -1
        /\ local.ids.contradictionID = -1
        /\ ~local.pool
        /\ local.run = "none"
        /\ local.gor = <<>>
        /\ local.logits = <<>>
        /\ nodes = <<>>
        /\ local.published = 0
        /\ local.wg = 0

\* classifyNLI has returned for a label map that holds "entailment" and
\* lacks "contradiction".
ClassifyContradictionMissing ==
    /\ pc = "returned"
    /\ "entailment" \in DOMAIN args.labels2id
    /\ "contradiction" \notin DOMAIN args.labels2id
    /\ ret.err = ContradictionErr

\* The label map holds both labels the call needs.
LabelsFound ==
    /\ "entailment" \in DOMAIN args.labels2id
    /\ "contradiction" \in DOMAIN args.labels2id

\* No goroutine of the call can take a step any more.
ClassifyQuiescent == ~ENABLED NextClassify

\* C18: classifyNLI always terminates: for every non-empty candidate list
\* and every CPU count >= 1 every published job is taken, wg.Wait returns
\* and the call returns a response, publishing never blocking for ever. No
\* job being taken twice and every step using up a job or a statement, the
\* runs are finite, and the call terminates if and only if it has returned
\* when nothing can move any more.
ClassifyTerminates ==
    (LabelsFound /\ ClassifyQuiescent) =>
        /\ pc = "returned"
        /\ ret.response = "ClassifyResponse"
        /\ local.published = args.numLabels

\* The same for two CPUs and more, that is with at least one worker (what
\* the code does do).
ClassifyTerminatesWithWorkers ==
    (LabelsFound /\ ClassifyQuiescent /\ args.numCPU >= 2) =>
        /\ pc = "returned"
        /\ ret.response = "ClassifyResponse"
        /\ local.published = args.numLabels

\* C19: classifyNLI leaks no goroutine: once it has returned, the goroutine
\* running wp.Run and every goroutine of the pool terminate; that is, when
\* nothing can move any more after the return, none of them is left waiting.
ClassifyLeaksNoGoroutine ==
    (pc = "returned" /\ ClassifyQuiescent) =>
        /\ local.run \in {"none", "ended"}
        /\ \A w \in DOMAIN local.gor : local.gor[w].state = "ended"

====
